---- MODULE Spec2Model ----
(***************************************************************************)
(* The duty-shift timer of assets/js/security/security.monitor.js:         *)
(* the SecurityMonitor object, its localStorage key 'duty_start_time',     *)
(* the elements the timer writes to (dutyTimerValue, dutyTimer,            *)
(* endShiftModal) and the wall clock.  Times are milliseconds.             *)
(***************************************************************************)
EXTENDS Integers, Sequences, FiniteSets

VARIABLES
    page,                \* "unloaded" | "loaded": whether the script is running
    now,                 \* the wall clock, what new Date() reads
    duty_start_time,     \* localStorage['duty_start_time']
    dutyStartTime,       \* SecurityMonitor.dutyStartTime
    dutyTimerInterval,   \* SecurityMonitor.dutyTimerInterval
    shiftDuration,       \* SecurityMonitor.shiftDuration
    remaining,           \* the remaining computed by the last updateDutyTimer
    timeStr,             \* #dutyTimerValue.textContent
    classList,           \* #dutyTimer.classList
    color,               \* #dutyTimerValue.style.color
    modalOpen,           \* 'open' in #endShiftModal.classList
    signalCount,         \* calls of showEndOfShiftModal since the timer was (re)armed
    uninterrupted,       \* shiftDuration of the same history run without a reload
    lastOp               \* the operation that produced this state

vars == <<page, now, duty_start_time, dutyStartTime, dutyTimerInterval,
          shiftDuration, remaining, timeStr, classList, color, modalOpen,
          signalCount, uninterrupted, lastOp>>

----------------------------------------------------------------------------
(* Program constants *)

MsPerHour == 3600000
MsPerMinute == 60000
MsPerSecond == 1000
MsPerDay == 24 * MsPerHour
WarningMinutes == 30
PadLength == 2
ShiftHours == 8
OvertimeHours == 2

NominalShift == ShiftHours * 60 * 60 * 1000
Overtime == OvertimeHours * 60 * 60 * 1000

(* Bounds of the model *)

MaxOvertime == 2
MaxOvertimeLong == 50
MaxSignals == 2

\* The clock readings the model steps through (the clock never goes back).
Instants ==
    { 0,
      1,                                   \* a millisecond on
      NominalShift - 3723004,              \* 01:02:03 left of a shift begun at 0
      NominalShift - 31 * MsPerMinute,     \* 31 min left
      NominalShift - 30 * MsPerMinute,     \* exactly 30 min left
      NominalShift - 29 * MsPerMinute,     \* elapsed 7h31m
      NominalShift - 1500000,              \* 00:25:00 left
      NominalShift - 59999,                \* under a minute left
      NominalShift,                        \* the deadline
      NominalShift + MsPerSecond,          \* a tick later
      NominalShift + 10 * MsPerMinute,
      NominalShift + Overtime,             \* the deadline after one overtime
      NominalShift + Overtime + MsPerSecond,
      MsPerDay }                           \* a day on, long after any deadline

----------------------------------------------------------------------------
(* JavaScript values *)

\* A JS number: an integer, or NaN.
Num(n) == [nan |-> FALSE, v |-> n]
NaN == [nan |-> TRUE, v |-> 0]

\* A Date object: a time value in ms, or Invalid Date; null before startDutyTimer.
DateOf(ms) == [kind |-> "date", ms |-> ms]
InvalidDate == [kind |-> "invalid", ms |-> 0]
NullDate == [kind |-> "null", ms |-> 0]

\* What localStorage.getItem returns: null or a string.  A string is either
\* the text of an ISO-8601 timestamp, kept as its fields, or some other text.
NoItem == [kind |-> "null", text |-> "", date |-> 0, hh |-> 0, mm |-> 0, ss |-> 0, sss |-> 0]
Text(s) == [kind |-> "text", text |-> s, date |-> 0, hh |-> 0, mm |-> 0, ss |-> 0, sss |-> 0]

\* Date.prototype.toISOString: YYYY-MM-DDTHH:mm:ss.sssZ, the calendar date
\* kept as the day number.
toISOString(d) ==
    [kind |-> "iso", text |-> "",
     date |-> d.ms \div MsPerDay,
     hh   |-> (d.ms % MsPerDay) \div MsPerHour,
     mm   |-> (d.ms % MsPerHour) \div MsPerMinute,
     ss   |-> (d.ms % MsPerMinute) \div MsPerSecond,
     sss  |-> d.ms % MsPerSecond]

\* Text that is not ISO-8601 and that new Date(string) parses all the same,
\* with its time value: the toUTCString format, which Date must parse.
LegacyDateTexts == {[text |-> "Thu, 01 Jan 1970 08:00:00 GMT", ms |-> 8 * MsPerHour]}

\* Text that new Date(string) does not parse.
UnparseableTexts == {"", "not-a-date"}

\* new Date(string): the time value of an ISO string or of other text the
\* engine parses, Invalid Date for text it does not parse.  Defined on the
\* strings listed here only.
ParseDate(s) ==
    CASE s.kind = "iso" ->
           DateOf(s.date * MsPerDay + s.hh * MsPerHour + s.mm * MsPerMinute
                  + s.ss * MsPerSecond + s.sss)
      [] s.kind = "text" /\ (\E l \in LegacyDateTexts : l.text = s.text) ->
           DateOf((CHOOSE l \in LegacyDateTexts : l.text = s.text).ms)
      [] s.kind = "text" /\ s.text \in UnparseableTexts ->
           InvalidDate

\* The truthiness of `stored`: null and "" are falsy.
Truthy(s) == s.kind # "null" /\ ~(s.kind = "text" /\ s.text = "")

\* now - this.dutyStartTime
Elapsed(t, start) ==
    IF start.kind = "date" THEN Num(t - start.ms)
    ELSE IF start.kind = "null" THEN Num(t)
    ELSE NaN

\* Remaining without its clamp: this.shiftDuration - elapsed
RemainingUnclamped(sd, elapsed) ==
    IF elapsed.nan THEN NaN ELSE Num(sd - elapsed.v)

\* Math.max(0, this.shiftDuration - elapsed)
Remaining(sd, elapsed) ==
    IF elapsed.nan THEN NaN
    ELSE IF sd - elapsed.v > 0 THEN Num(sd - elapsed.v) ELSE Num(0)

\* The % of JavaScript: the result has the sign of the dividend.
JsRem(a, m) == IF a >= 0 THEN a % m ELSE 0 - ((0 - a) % m)

\* Math.floor(x / d) and Math.floor((x % m) / d)
FloorDiv(x, d) == IF x.nan THEN NaN ELSE Num(x.v \div d)
FloorModDiv(x, m, d) == IF x.nan THEN NaN ELSE Num(JsRem(x.v, m) \div d)

Hours(rem) == FloorDiv(rem, MsPerHour)
\* Minutes without the % 3600000: the minutes of the whole remaining time
MinutesOfTotal(rem) == FloorDiv(rem, MsPerMinute)

Minutes(rem) == FloorModDiv(rem, MsPerHour, MsPerMinute)
Seconds(rem) == FloorModDiv(rem, MsPerMinute, MsPerSecond)

DigitChar == <<"0", "1", "2", "3", "4", "5", "6", "7", "8", "9">>

RECURSIVE Decimal(_)
Decimal(n) ==
    IF n < 0 THEN <<"-">> \o Decimal(0 - n)
    ELSE IF n < 10 THEN <<DigitChar[n + 1]>>
    ELSE Decimal(n \div 10) \o <<DigitChar[(n % 10) + 1]>>

\* Number.prototype.toString, as a sequence of characters
toString(x) == IF x.nan THEN <<"N", "a", "N">> ELSE Decimal(x.v)

\* String.prototype.padStart(len, '0')
RECURSIVE padStart(_, _)
padStart(s, len) == IF Len(s) >= len THEN s ELSE padStart(<<"0">> \o s, len)

\* [h, m, s].join(':')
TimeStr(rem) ==
    padStart(toString(Hours(rem)), PadLength) \o <<":">>
    \o padStart(toString(Minutes(rem)), PadLength) \o <<":">>
    \o padStart(toString(Seconds(rem)), PadLength)

\* hours === 0 && minutes <= 30 && minutes > 0
IsWarning(rem) ==
    LET h == Hours(rem)  m == Minutes(rem)
    IN  ~h.nan /\ ~m.nan /\ h.v = 0 /\ m.v <= WarningMinutes /\ m.v > 0

\* remaining === 0
IsCritical(rem) == ~rem.nan /\ rem.v = 0

Bump(n) == IF n < MaxSignals THEN n + 1 ELSE n

----------------------------------------------------------------------------
(* Operations *)

\* updateDutyTimer with a once-only latch on the signal that nothing re-arms:
\* showEndOfShiftModal only while 'critical' is not yet in the class list.
updateDutyTimerLatched(t, start, sd, cls, col, open, count) ==
    LET rem == Remaining(sd, Elapsed(t, start))
        warn == IsWarning(rem)
        crit == IsCritical(rem)
        fire == crit /\ "critical" \notin cls
    IN  /\ remaining' = rem
        /\ timeStr' = TimeStr(rem)
        /\ classList' = cls \cup (IF warn THEN {"warning"} ELSE {})
                            \cup (IF crit THEN {"critical"} ELSE {})
        /\ color' = IF crit THEN "#dc3545" ELSE IF warn THEN "#ffc107" ELSE col
        /\ modalOpen' = (open \/ fire)
        /\ signalCount' = IF fire THEN Bump(count) ELSE count

\* The body of updateDutyTimer, whose new Date() reads t, run in the state
\* where the fields are start and sd and the elements are cls, col, open, count.
updateDutyTimer(t, start, sd, cls, col, open, count) ==
    LET rem == Remaining(sd, Elapsed(t, start))
        warn == IsWarning(rem)
        crit == IsCritical(rem)
    IN  /\ remaining' = rem
        /\ timeStr' = TimeStr(rem)
        /\ classList' = cls \cup (IF warn THEN {"warning"} ELSE {})
                            \cup (IF crit THEN {"critical"} ELSE {})
        /\ color' = IF crit THEN "#dc3545" ELSE IF warn THEN "#ffc107" ELSE col
        /\ modalOpen' = (open \/ crit)           \* showEndOfShiftModal
        /\ signalCount' = IF crit THEN Bump(count) ELSE count

\* What the new Date() of updateDutyTimer may read when startDutyTimer calls
\* it: with nothing stored the clock was read before, for dutyStartTime, and
\* may have moved on since; with a stored value this is the only reading.
SecondReads(stored) ==
    IF Truthy(stored) THEN {now}
    ELSE {now} \cup {t \in Instants : t > now}

\* DOMContentLoaded: init, which runs startDutyTimer on a fresh object and a
\* fresh document.  The clock is read for dutyStartTime, and again, as t, by
\* updateDutyTimer.
startDutyTimer ==
    /\ page = "unloaded"
    /\ \E t \in SecondReads(duty_start_time) :
        LET stored == duty_start_time
            start == IF Truthy(stored) THEN ParseDate(stored) ELSE DateOf(now)
        IN  /\ dutyStartTime' = start
            /\ duty_start_time' = IF ~Truthy(stored) THEN toISOString(start) ELSE stored
            /\ uninterrupted' = IF ~Truthy(stored) THEN NominalShift ELSE uninterrupted
            /\ now' = t
            /\ updateDutyTimer(t, start, NominalShift, {}, "", FALSE, 0)
            /\ lastOp' = IF Truthy(stored) THEN "resume" ELSE "start"
    /\ page' = "loaded"
    /\ dutyTimerInterval' = "running"
    /\ shiftDuration' = NominalShift

\* The setInterval callback.
Tick ==
    /\ page = "loaded"
    /\ dutyTimerInterval = "running"
    /\ updateDutyTimer(now, dutyStartTime, shiftDuration, classList, color, modalOpen, signalCount)
    /\ lastOp' = "tick"
    /\ UNCHANGED <<page, now, duty_start_time, dutyStartTime, dutyTimerInterval,
                   shiftDuration, uninterrupted>>

\* requestOvertimeBtn click, while fewer than k extensions were granted.
requestOvertimeUpTo(k) ==
    /\ page = "loaded"
    /\ uninterrupted < NominalShift + k * Overtime
    /\ modalOpen' = FALSE
    /\ shiftDuration' = shiftDuration + Overtime
    /\ uninterrupted' = uninterrupted + Overtime
    /\ signalCount' = 0
    /\ lastOp' = "overtime"
    /\ UNCHANGED <<page, now, duty_start_time, dutyStartTime, dutyTimerInterval,
                   remaining, timeStr, classList, color>>

requestOvertime == requestOvertimeUpTo(MaxOvertime)

requestOvertimeLong == requestOvertimeUpTo(MaxOvertimeLong)

\* removeItem left out: the item stays
removeItemMissing(s) == s

\* localStorage.removeItem('duty_start_time')
removeItem(s) == NoItem

\* confirmEndShift click: clearInterval, removeItem, alert, location.href.
\* The handler returns with the page still there; it goes away in Unload.
endShift ==
    /\ page = "loaded"
    /\ dutyTimerInterval' = "cleared"
    /\ duty_start_time' = removeItem(duty_start_time)
    /\ lastOp' = "endShift"
    /\ UNCHANGED <<page, now, dutyStartTime, shiftDuration, remaining, timeStr,
                   classList, color, modalOpen, signalCount, uninterrupted>>

\* logoutBtn click, confirmed: clearInterval, removeItem, location.href.
logout ==
    /\ page = "loaded"
    /\ dutyTimerInterval' = "cleared"
    /\ duty_start_time' = removeItem(duty_start_time)
    /\ lastOp' = "logout"
    /\ UNCHANGED <<page, now, dutyStartTime, shiftDuration, remaining, timeStr,
                   classList, color, modalOpen, signalCount, uninterrupted>>

\* The page goes away (the navigation endShift or logout asked for, a reload,
\* a closed tab): the object and the document go with it, localStorage stays.
Unload ==
    /\ page = "loaded"
    /\ page' = "unloaded"
    /\ dutyStartTime' = NullDate
    /\ dutyTimerInterval' = "null"
    /\ shiftDuration' = NominalShift
    /\ remaining' = Num(0)
    /\ timeStr' = <<>>
    /\ classList' = {}
    /\ color' = ""
    /\ modalOpen' = FALSE
    /\ signalCount' = 0
    /\ lastOp' = "unload"
    /\ UNCHANGED <<now, duty_start_time, uninterrupted>>

\* The navigation that endShift and logout asked for.
Navigate == dutyTimerInterval = "cleared" /\ Unload

\* A click on the modal's backdrop or on a [data-modal-close] button.
closeModal ==
    /\ page = "loaded"
    /\ modalOpen
    /\ modalOpen' = FALSE
    /\ lastOp' = "close"
    /\ UNCHANGED <<page, now, duty_start_time, dutyStartTime, dutyTimerInterval,
                   shiftDuration, remaining, timeStr, classList, color,
                   signalCount, uninterrupted>>

\* Time passes, from the moment the page is first opened (the clock's 0).
ClockAdvance ==
    /\ lastOp # "none"
    /\ \E t \in Instants : t > now /\ now' = t
    /\ lastOp' = IF page = "loaded" THEN "advance" ELSE lastOp
    /\ UNCHANGED <<page, duty_start_time, dutyStartTime, dutyTimerInterval,
                   shiftDuration, remaining, timeStr, classList, color, modalOpen,
                   signalCount, uninterrupted>>

\* The state before the page is first opened, with `item` under the key.
InitWith(item) ==
    /\ page = "unloaded"
    /\ now = 0
    /\ duty_start_time = item
    /\ dutyStartTime = NullDate
    /\ dutyTimerInterval = "null"
    /\ shiftDuration = NominalShift
    /\ remaining = Num(0)
    /\ timeStr = <<>>
    /\ classList = {}
    /\ color = ""
    /\ modalOpen = FALSE
    /\ signalCount = 0
    /\ uninterrupted = NominalShift
    /\ lastOp = "none"

\* A browser whose localStorage holds nothing of this page.
Init == InitWith(NoItem)

\* A browser whose localStorage holds anything under the key: nothing, the
\* empty string, text that is no timestamp, a timestamp in another format
\* that Date parses, or an ISO timestamp.
StoredInputs ==
    {NoItem, Text(""), Text("not-a-date"), toISOString(DateOf(0))}
    \cup {Text(l.text) : l \in LegacyDateTexts}

InitStored == \E item \in StoredInputs : InitWith(item)

Next ==
    \/ startDutyTimer
    \/ Tick
    \/ requestOvertime
    \/ endShift
    \/ logout
    \/ Unload
    \/ closeModal
    \/ ClockAdvance

NextLong ==
    \/ startDutyTimer
    \/ Tick
    \/ requestOvertimeLong
    \/ ClockAdvance

Spec == Init /\ [][Next]_vars

\* The interval fires for as long as the page is open and the interval runs,
\* and a navigation that was asked for happens.
FairSpec == Spec /\ WF_vars(Tick) /\ WF_vars(Navigate)

SpecStored == InitStored /\ [][Next]_vars

SpecLong == Init /\ [][NextLong]_vars
----------------------------------------------------------------------------
(* The claims *)

Ticked == lastOp \in {"start", "resume", "tick"}

Max0(x) == IF x < 0 THEN 0 ELSE x

ThirtyMinutes == WarningMinutes * MsPerMinute

\* C1: within one shift and without an overtime request in between, the
\* end-of-shift signal is raised on exactly one tick, the first one that
\* finds remaining = 0; later ticks at remaining = 0 set 'critical' and do
\* not raise it again.
C1_SignalExactlyOnce ==
    /\ signalCount <= 1
    /\ (Ticked /\ ~remaining.nan /\ remaining.v = 0)
           => (signalCount >= 1 /\ "critical" \in classList)

\* C2: the remaining time a tick computes is an integer >= 0 and equals
\* max(0, shiftDuration - (now - dutyStartTime)), whatever start, tick,
\* requestOvertime and clock advances came before.
C2_RemainingNeverNegative ==
    Ticked =>
        /\ ~remaining.nan
        /\ remaining.v \in Nat
        /\ dutyStartTime.kind = "date"
        /\ remaining.v = Max0(shiftDuration - (now - dutyStartTime.ms))

\* A tick long after the extended deadline: elapsed is far beyond shiftDuration.
C2_Witness ==
    /\ lastOp = "tick"
    /\ shiftDuration > NominalShift
    /\ now - dutyStartTime.ms > shiftDuration + MsPerHour
    /\ remaining = Num(0)

\* C3: on every tick, the first one after a page load included, a remaining
\* time with 0 < remaining <= 30 minutes puts the timer in the warning state.
C3_WarningWithinThirtyMinutes ==
    (Ticked /\ ~remaining.nan /\ 0 < remaining.v /\ remaining.v <= ThirtyMinutes)
        => "warning" \in classList

\* C4: requestOvertime after the timer reached critical makes the remaining
\* time, at the same clock value, exactly 2h greater, and if the result is
\* above 30 minutes the next tick leaves neither warning nor critical set.
C4_OvertimeAddsTwoHoursAndClears ==
    [][ /\ ( /\ page = "loaded" /\ page' = "loaded"
             /\ shiftDuration' # shiftDuration
             /\ "critical" \in classList )
           => Max0(shiftDuration' - (now - dutyStartTime.ms))
                = Max0(shiftDuration - (now - dutyStartTime.ms)) + Overtime
        /\ ( /\ lastOp = "overtime" /\ lastOp' = "tick"
             /\ "critical" \in classList
             /\ ~remaining'.nan /\ remaining'.v > ThirtyMinutes )
           => classList' = {}
      ]_vars

\* C5: after a reload with the persisted start time still present, every
\* tick computes the remaining time the same history would have given
\* without the reload.
C5_RestartEquivalence ==
    (Ticked /\ dutyStartTime.kind = "date")
        => remaining = Num(Max0(uninterrupted - (now - dutyStartTime.ms)))

\* C6: a persisted value that is present and does not parse is treated as
\* absent by startDutyTimer: dutyStartTime is the current clock value, that
\* value is persisted, and the first tick computes remaining = shiftDuration.
C6_UnparseableTreatedAsAbsent ==
    [][ ( /\ page = "unloaded" /\ page' = "loaded"
          /\ duty_start_time.kind # "null"
          /\ ParseDate(duty_start_time) = InvalidDate )
          => /\ dutyStartTime' = DateOf(now)
             /\ ParseDate(duty_start_time') = DateOf(now)
             /\ remaining' = Num(shiftDuration')
      ]_vars

\* C7: endShift and logout leave the persisted key absent and the interval
\* cancelled: no tick runs afterwards and the key stays absent until a
\* startDutyTimer; the next startDutyTimer, reading clock value t, sets
\* dutyStartTime to t, persists t and starts from the nominal 8h (its first
\* update shows 8h less what passed since t was read); startDutyTimer with a
\* valid persisted value (any text Date parses) reuses it and leaves the key
\* as it is.
C7_EndThenFreshShift ==
    [][ /\ lastOp' \in {"endShift", "logout"}
           => /\ duty_start_time' = NoItem
              /\ dutyTimerInterval' = "cleared"
        /\ (dutyTimerInterval = "cleared" /\ page' = "loaded")
           => /\ duty_start_time' = NoItem
              /\ dutyTimerInterval' = "cleared"
              /\ lastOp' # "tick"
              /\ remaining' = remaining /\ timeStr' = timeStr
        /\ (duty_start_time = NoItem /\ duty_start_time' # NoItem)
           => (page = "unloaded" /\ page' = "loaded")
        /\ (page = "unloaded" /\ page' = "loaded" /\ duty_start_time.kind = "null")
           => /\ dutyStartTime' = DateOf(now)
              /\ duty_start_time'.kind = "iso"
              /\ ParseDate(duty_start_time') = DateOf(now)
              /\ shiftDuration' = NominalShift
              /\ now' >= now
              /\ remaining' = Num(Max0(NominalShift - (now' - now)))
        /\ ( /\ page = "unloaded" /\ page' = "loaded"
             /\ duty_start_time.kind # "null"
             /\ ParseDate(duty_start_time).kind = "date" )
           => /\ dutyStartTime' = ParseDate(duty_start_time)
              /\ duty_start_time' = duty_start_time
      ]_vars

\* A shift begun afresh at a later clock value, which only follows an
\* endShift or a logout (the first page load reads clock value 0), its first
\* updateDutyTimer reading the clock after the start time was taken.
C7_Witness ==
    /\ lastOp = "start"
    /\ dutyStartTime.kind = "date"
    /\ dutyStartTime.ms >= NominalShift
    /\ now > dutyStartTime.ms
    /\ duty_start_time = toISOString(dutyStartTime)
    /\ shiftDuration = NominalShift
    /\ remaining = Num(NominalShift - (now - dutyStartTime.ms))
    /\ remaining.v > 0

\* C8: once requestOvertime has extended the shift and the clock has passed
\* the extended deadline, fair ticking raises the end-of-shift signal again;
\* and no tick raises it while remaining > 0.
C8_ReArmed ==
    /\ ( /\ page = "loaded"
         /\ shiftDuration > NominalShift
         /\ dutyStartTime.kind = "date"
         /\ now - dutyStartTime.ms >= shiftDuration
         /\ signalCount = 0 )
       ~> ( \/ signalCount > 0
            \/ page = "unloaded"
            \/ now - dutyStartTime.ms < shiftDuration )
    /\ [][ (page = "loaded" /\ page' = "loaded" /\ signalCount' > signalCount)
             => remaining' = Num(0) ]_vars

\* The signal raised for the deadline an overtime request extended.
C8_Witness ==
    /\ lastOp = "tick"
    /\ shiftDuration > NominalShift
    /\ remaining = Num(0)
    /\ signalCount >= 1
    /\ modalOpen

\* The display state a class list shows.
DisplayState(cls) ==
    IF "critical" \in cls THEN "critical"
    ELSE IF "warning" \in cls THEN "warning"
    ELSE "normal"

\* C9: the time string and the display state after a tick depend only on
\* the clock value, dutyStartTime and shiftDuration: they are what a run
\* that missed every earlier tick shows after a tick at the same clock value.
C9_TickHistoryIndependent ==
    Ticked =>
        LET rem == Remaining(shiftDuration, Elapsed(now, dutyStartTime))
            fresh == (IF IsWarning(rem) THEN {"warning"} ELSE {})
                     \cup (IF IsCritical(rem) THEN {"critical"} ELSE {})
        IN  /\ timeStr = TimeStr(rem)
            /\ DisplayState(classList) = DisplayState(fresh)

IsDigit(c) == \E i \in 1..10 : DigitChar[i] = c

DigitValue(c) == CHOOSE i \in 0..9 : DigitChar[i + 1] = c

RECURSIVE ValueOf(_)
ValueOf(digits) ==
    IF digits = <<>> THEN 0
    ELSE ValueOf(SubSeq(digits, 1, Len(digits) - 1)) * 10
         + DigitValue(digits[Len(digits)])

\* timeStr is <hours>:MM:SS for the remaining time, MM and SS two digits.
FieldsOf(str, rem) ==
    LET n == Len(str)
        hh == SubSeq(str, 1, n - 6)
        mm == SubSeq(str, n - 4, n - 3)
        ss == SubSeq(str, n - 1, n)
    IN  /\ n >= 8
        /\ str[n - 5] = ":" /\ str[n - 2] = ":"
        /\ \A i \in (1..n) \ {n - 5, n - 2} : IsDigit(str[i])
        /\ ValueOf(hh) = rem \div MsPerHour
        /\ ValueOf(mm) = (rem % MsPerHour) \div MsPerMinute
        /\ ValueOf(mm) \in 0..59
        /\ ValueOf(ss) = (rem % MsPerMinute) \div MsPerSecond
        /\ ValueOf(ss) \in 0..59

\* C10 as stated: for every remaining time a tick computes, the displayed
\* string is HH:MM:SS with exactly three two-digit zero-padded fields.
C10_ExactlyTwoDigitFields ==
    (Ticked /\ ~remaining.nan)
        => (Len(timeStr) = 8 /\ FieldsOf(timeStr, remaining.v))

\* C10 as amended: the displayed string is <hours>:MM:SS, truncating, with
\* MM and SS two zero-padded digits and the hours zero-padded to two digits:
\* two digits below 100 hours, the plain decimal from 100 hours on.
C10_AtLeastTwoDigitHours ==
    (Ticked /\ ~remaining.nan) =>
        /\ FieldsOf(timeStr, remaining.v)
        /\ (remaining.v < 100 * MsPerHour => Len(timeStr) = 8)
        /\ (remaining.v >= 100 * MsPerHour => (Len(timeStr) > 8 /\ timeStr[1] # "0"))
        /\ (remaining.v = 1500000
              => timeStr = <<"0", "0", ":", "2", "5", ":", "0", "0">>)

\* A tick with 101:02:03 left, after enough overtime extensions.
C10_Witness ==
    /\ lastOp = "tick"
    /\ remaining = Num(101 * MsPerHour + 2 * MsPerMinute + 3 * MsPerSecond + 4)
    /\ timeStr = <<"1", "0", "1", ":", "0", "2", ":", "0", "3">>
====
